---- MODULE Spec2Model ----
(***************************************************************************)
(* Bussp/backend: the bus-route resolution and position-aggregation layer. *)
(*                                                                         *)
(*   SpTransAdapter   src/src/adapters/external/sptrans_adapter.py         *)
(*   RouteService     src/src/core/services/route_service.py               *)
(*   GTFSRepositoryAdapter                                                 *)
(*                    src/src/adapters/repositories/gtfs_repository_adapter.py *)
(*   UserService      src/src/core/services/user_service.py                *)
(*   TripService      src/src/core/services/trip_service.py                *)
(*   UserRepositoryAdapter, TripRepositoryAdapter                          *)
(*                    src/src/adapters/repositories/                       *)
(*   get_db           src/src/adapters/database/connection.py              *)
(*                                                                         *)
(* Spec       : one caller using a SpTransAdapter through a RouteService.  *)
(* SpecShared : two callers sharing that client, their steps interleaved.  *)
(*              An awaited HTTP call is split in two steps (request sent,  *)
(*              response handled); everything between two awaits is one    *)
(*              step, as on an asyncio event loop.                         *)
(* SpecShapes : RouteService.get_route_shapes over GTFSRepositoryAdapter,  *)
(*              one step per loop iteration.                               *)
(* SpecTrips  : UserService.create_user and TripService.create_trip over   *)
(*              the SQL repositories, one request at a time, one step per  *)
(*              awaited repository call, the session committed or rolled   *)
(*              back when the request ends; ScoreService.get_user_ranking. *)
(* SpecMapper : map_line_info_to_bus_route                                  *)
(*              (src/src/adapters/external/sptrans_mappers.py) applied to  *)
(*              search-result entries.                                     *)
(***************************************************************************)
EXTENDS Integers, Sequences, FiniteSets, TLC

\* ------------------------------------------------------------------ bounds
MaxOps == 3          \* operations started over a behaviour of Spec
MaxRoutes == 2       \* longest route list handed to get_bus_positions
MaxSharedRoutes == 1 \* the same, when two requests share the client
MaxIds == 2          \* longest identifier list handed to get_route_shapes
MaxShapeCalls == 2   \* get_route_shapes calls over a behaviour of SpecShapes

Callers == {1, 2}    \* logical requests sharing the client instance
FirstCaller == CHOOSE c \in Callers : \A d \in Callers : c <= d

\* ------------------------------------------------------------ domain values
None == "None"

RouteIdentifiers ==
    { [bus_line |-> "8000", bus_direction |-> 1],
      [bus_line |-> "8000", bus_direction |-> 2],
      [bus_line |-> "9000", bus_direction |-> 1] }

\* BusRoute as the adapter builds and reads it: route_id (cl) + route.
BusRoutes ==
    { [route_id |-> 1, route |-> [bus_line |-> "8000", bus_direction |-> 1]],
      [route_id |-> 2, route |-> [bus_line |-> "8000", bus_direction |-> 2]],
      [route_id |-> 3, route |-> [bus_line |-> "9000", bus_direction |-> 1]] }

RouteLists == UNION { [1..n -> BusRoutes] : n \in 0..MaxRoutes }

SharedRouteLists == UNION { [1..n -> BusRoutes] : n \in 0..MaxSharedRoutes }

\* ------------------------------------------------------- the provider (env)
GoodTime == "2024-01-01T10:00:00"
BadTime == "n/a"

\* Vehicles the provider currently reports for a line code (Vehicle TypedDict).
FleetOf(line_code) ==
    CASE line_code = 1 -> << [p |-> "11", py |-> -23550520, px |-> -46633308, ta |-> GoodTime] >>
      [] line_code = 2 -> << >>
      [] OTHER         -> << [p |-> "31", py |-> -23560520, px |-> -46643308, ta |-> GoodTime],
                             [p |-> "32", py |-> -23570520, px |-> -46653308, ta |-> GoodTime] >>

\* The same fleet with entry k carrying a timestamp that is not ISO-8601.
Garbled(vs, k) == [i \in 1..Len(vs) |-> IF i = k THEN [vs[i] EXCEPT !.ta = BadTime] ELSE vs[i]]

NoBody == [type |-> "none", vs |-> << >>, data |-> << >>]
DeniedBody == [type |-> "denied", vs |-> << >>, data |-> << >>]
InvalidBody == [type |-> "invalid", vs |-> << >>, data |-> << >>]
PositionsBody(vs) == [type |-> "positions", vs |-> vs, data |-> << >>]
LinesBody(data) == [type |-> "lines", vs |-> << >>, data |-> data]

Http(status, text, body) == [kind |-> "http", status |-> status, text |-> text, body |-> body]
TransportError == [kind |-> "transport", status |-> 0, text |-> "", body |-> NoBody]

\* The provider's session-expiry signal: 401 carrying the denial message.
Unauthorized == Http(401, "", DeniedBody)

IsUnauthorized(r) == r.kind = "http" /\ r.status = 401 /\ r.body.type = "denied"

\* Answers to POST /Login/Autenticar.
AuthResponses ==
    { Http(200, "true", NoBody), Http(200, "false", NoBody),
      Http(401, "", NoBody), TransportError }

\* Answers to GET /Posicao/Linha?codigoLinha=line_code.
PositionResponses(line_code) ==
    { Http(200, "", PositionsBody(FleetOf(line_code))) }
      \cup { Http(200, "", PositionsBody(Garbled(FleetOf(line_code), k))) :
               k \in 1..Len(FleetOf(line_code)) }
      \cup { Unauthorized, Http(401, "", NoBody), Http(500, "", NoBody),
             Http(200, "", InvalidBody), TransportError }

\* LineInfo entries the provider knows for a (line, direction).
LinesOf(route) ==
    CASE route = [bus_line |-> "8000", bus_direction |-> 1] ->
             << [cl |-> 1, has_cl |-> TRUE], [cl |-> 3, has_cl |-> TRUE] >>
      [] route = [bus_line |-> "8000", bus_direction |-> 2] ->
             << [cl |-> 2, has_cl |-> TRUE] >>
      [] OTHER -> << >>

\* A LineInfo entry that lacks the line code.
MissingCl == [cl |-> 0, has_cl |-> FALSE]

\* Answers to GET /Linha/BuscarLinhaSentido: the entries of the route, alone or
\* with an entry lacking the line code before or after them.
DetailResponses(route) ==
    { Http(200, "", LinesBody(LinesOf(route))),
      Http(200, "", LinesBody(<< MissingCl >> \o LinesOf(route))),
      Http(200, "", LinesBody(LinesOf(route) \o << MissingCl >>)),
      Unauthorized, Http(401, "", NoBody), Http(500, "", NoBody),
      Http(200, "", InvalidBody), TransportError }

\* A response that lets the operation complete normally.
Completed(r) ==
    /\ r.kind = "http" /\ r.status = 200
    /\ r.body.type \in {"positions", "lines"}
    /\ \A i \in 1..Len(r.body.vs) : r.body.vs[i].ta = GoodTime

\* ------------------------------------------------------------ SpTransAdapter
\* sptrans_adapter.py:88,150  the defensive session check.
IsAuthenticated_AlwaysTrue(tok) == TRUE

IsAuthenticated(tok) == tok = "authenticated"

\* sptrans_adapter.py:55-71  what authenticate() returns for a response.
authenticate_ok_AnyOk(r) == r.kind = "http" /\ r.status = 200

authenticate_ok(r) == r.kind = "http" /\ r.status = 200 /\ r.text = "true"

\* sptrans_adapter.py:61-71  the session after authenticate() handled a
\* response: replaced on success, untouched otherwise.
session_after_Reset(tok, r) == IF authenticate_ok(r) THEN "authenticated" ELSE None

session_after(tok, r) == IF authenticate_ok(r) THEN "authenticated" ELSE tok

\* vehicle["py"] / 1_000_000 as an exact quotient.
Micro(x) == [num |-> x, den |-> 1000000]

\* datetime.fromisoformat(vehicle["ta"]) raises on a non-ISO string.
IsIsoTime(ta) == ta = GoodTime

\* sptrans_adapter.py:111-118
make_position(bus_route, vehicle) ==
    [route |-> bus_route.route,
     position |-> [latitude |-> Micro(vehicle.py), longitude |-> Micro(vehicle.px)],
     time_updated |-> vehicle.ta]

\* sptrans_adapter.py:110-119  the loop stops at the first entry that raises.
RECURSIVE map_vehicles(_, _)
map_vehicles(bus_route, vs) ==
    IF vs = << >> THEN << >>
    ELSE IF ~IsIsoTime(Head(vs).ta) THEN << >>
    ELSE << make_position(bus_route, Head(vs)) >> \o map_vehicles(bus_route, Tail(vs))

\* sptrans_adapter.py:91-125  the list get_bus_positions returns for a response:
\* every exception of the try block is swallowed and `positions` is returned.
build_positions_AllOrNothing(bus_route, r) ==
    IF r.kind = "transport" THEN << >>
    ELSE IF r.status # 200 THEN << >>
    ELSE IF r.body.type # "positions" THEN << >>
    ELSE IF \E i \in 1..Len(r.body.vs) : ~IsIsoTime(r.body.vs[i].ta) THEN << >>
    ELSE map_vehicles(bus_route, r.body.vs)

build_positions(bus_route, r) ==
    IF r.kind = "transport" THEN << >>
    ELSE IF r.status # 200 THEN << >>
    ELSE IF r.body.type # "positions" THEN << >>
    ELSE map_vehicles(bus_route, r.body.vs)

Return(v) == [kind |-> "return", value |-> v, exc |-> None]
Raise(e) == [kind |-> "raise", value |-> None, exc |-> e]
Pending == [kind |-> "none", value |-> None, exc |-> None]

NotAuthenticated == "RuntimeError: SPTrans client not authenticated"
FailedToResolve == "RuntimeError: Failed to resolve route details"

\* sptrans_adapter.py:153-189  the outcome of get_route_details for a response.
route_details_Swallow(route, r) ==
    IF r.kind = "http" /\ r.status = 200 /\ r.body.type = "lines"
       /\ Len(r.body.data) > 0 /\ r.body.data[1].has_cl
    THEN Return([route_id |-> r.body.data[1].cl, route |-> route])
    ELSE Return(None)

route_details(route, r) ==
    IF r.kind = "transport" THEN Raise(FailedToResolve)
    ELSE IF r.status # 200 THEN Raise(FailedToResolve)
    ELSE IF r.body.type # "lines" \/ Len(r.body.data) = 0 THEN Raise(FailedToResolve)
    ELSE IF ~r.body.data[1].has_cl THEN Raise(FailedToResolve)
    ELSE Return([route_id |-> r.body.data[1].cl, route |-> route])

\* -------------------------------------------------------------- RouteService
\* route_service.py:47  positions.extend(route_positions)
extend_Prepend(positions, route_positions) == route_positions \o positions

extend(positions, route_positions) == positions \o route_positions

\* route_service.py:46,63  the awaited provider call is not wrapped in
\* try/except: what it raises leaves the service method as it is.
propagate_Swallow(positions, out) == Return(positions)

propagate(positions, out) == out

\* route_service.py:50-55  search terms.
Queries == {"809", "Vila Nova"}

\* What bus_provider.search_routes may do behind the port: return a list of
\* routes, empty or not, or raise.
ProviderErrors == {"RuntimeError: boom", NotAuthenticated}

SearchOutcomes ==
    { Return(<< >>) } \cup { Return(<< b >>) : b \in BusRoutes }
        \cup { Raise(e) : e \in ProviderErrors }

\* ------------------------------------------------------------------- state
VARIABLES
    session_token,   \* SpTransAdapter.session_token: None or "authenticated"
    pc,              \* per caller: idle, auth_wait, details_wait, positions_wait,
                     \* search_wait, done
    call,            \* per caller: the operation in progress and its locals
    outcome,         \* per caller: what the operation returned or raised
    attempts,        \* per caller: GET requests sent by the current adapter call
    handshakes,      \* per caller: POST /Login/Autenticar sent by the current call
    last,            \* per caller: the adapter call that completed most recently
    nops             \* operations started so far

pvars == << session_token, pc, call, outcome, attempts, handshakes, last, nops >>

\* RouteService.get_route_shapes and the schedule dataset.
VARIABLES
    gtfs,        \* the schedule dataset: tables trips and shapes
    s_pc,        \* get_route_shapes: idle, loop, done
    s_routes,    \* its argument `routes`
    s_i,         \* identifiers already looked up
    s_shapes,    \* its local list `shapes`
    s_outcome,   \* what it returned or raised
    s_calls,     \* identifiers handed to gtfs_repository.get_route_shape, in call order
    s_results,   \* what each of those calls returned or raised
    s_sql,       \* SQL statements executed by each of those calls
    s_nops       \* get_route_shapes calls started

svars == << gtfs, s_pc, s_routes, s_i, s_shapes, s_outcome, s_calls, s_results,
            s_sql, s_nops >>

\* UserService.create_user and TripService.create_trip over the SQL database,
\* one HTTP request at a time, each with its own session (get_db).
VARIABLES
    db_users,    \* table users: the committed rows
    db_trips,    \* table trips: the committed rows, in id order
    tx_users,    \* table users as the request's session sees it
    tx_trips,    \* table trips as the request's session sees it
    t_session,   \* what happened to the request's session, in order
    t_pc,        \* idle, check, save_user, lookup, save, add_score, returned, raised, done
    t_req,       \* the request: service method and arguments
    t_score,     \* create_trip's local `score`
    t_calls,     \* repository calls the service made in this request, in order
    t_outcome,   \* what the service method returned or raised
    t_pre,       \* the committed tables when the request began
    t_nreq       \* requests started

tvars == << db_users, db_trips, tx_users, tx_trips, t_session, t_pc, t_req, t_score,
            t_calls, t_outcome, t_pre, t_nreq >>

VARIABLES
    m_item,      \* the search-result entry (SPTransLineInfo) at hand
    m_out,       \* what the mapper gave for it
    m_pc         \* "idle" before the mapper is applied, "done" after

mvars == << m_item, m_out, m_pc >>

NoCall ==
    [op |-> "none", routes |-> << >>, i |-> 0, positions |-> << >>, route |-> None,
     queries |-> << >>, perRoute |-> << >>, resps |-> << >>, answers |-> << >>,
     query |-> None, raised |-> << >>]

NoLast ==
    [op |-> "none", tag |-> "none", attempts |-> 0, handshakes |-> 0,
     token_pre |-> None, token_post |-> None, out |-> Pending]

\* How the provider answered: ok, unauthorized (session expired) or failed.
ResponseTag(r) ==
    IF Completed(r) THEN "ok" ELSE IF IsUnauthorized(r) THEN "unauthorized" ELSE "failed"

\* sptrans_adapter.py:45-46  state after construction.
ProviderInit ==
    /\ session_token = None
    /\ pc = [c \in Callers |-> "idle"]
    /\ call = [c \in Callers |-> NoCall]
    /\ outcome = [c \in Callers |-> Pending]
    /\ attempts = [c \in Callers |-> 0]
    /\ handshakes = [c \in Callers |-> 0]
    /\ last = [c \in Callers |-> NoLast]
    /\ nops = 0

\* sptrans_adapter.py:48-59  authenticate() up to the awaited POST.
authenticate_send(c) ==
    /\ pc[c] = "idle" /\ nops < MaxOps
    /\ pc' = [pc EXCEPT ![c] = "auth_wait"]
    /\ call' = [call EXCEPT ![c] = [NoCall EXCEPT !.op = "authenticate"]]
    /\ outcome' = [outcome EXCEPT ![c] = Pending]
    /\ attempts' = [attempts EXCEPT ![c] = 0]
    /\ handshakes' = [handshakes EXCEPT ![c] = 1]
    /\ nops' = nops + 1
    /\ UNCHANGED << session_token, last >>
    /\ UNCHANGED << svars, tvars, mvars >>

\* sptrans_adapter.py:61-71  authenticate() from the response on.
authenticate_recv(c) ==
    /\ pc[c] = "auth_wait"
    /\ \E r \in AuthResponses :
          /\ session_token' = session_after(session_token, r)
          /\ outcome' = [outcome EXCEPT ![c] = Return(authenticate_ok(r))]
          /\ last' = [last EXCEPT ![c] =
                 [op |-> "authenticate",
                  tag |-> IF r = Http(200, "true", NoBody) THEN "ok" ELSE "failed",
                  attempts |-> attempts[c], handshakes |-> handshakes[c],
                  token_pre |-> session_token, token_post |-> session_token',
                  out |-> Return(authenticate_ok(r))]]
    /\ pc' = [pc EXCEPT ![c] = "done"]
    /\ UNCHANGED << call, attempts, handshakes, nops >>
    /\ UNCHANGED << svars, tvars, mvars >>

\* The record of an adapter call stopped by the session check (lines 88-89, 150-151).
Rejected(op, tok) ==
    [op |-> op, tag |-> "none", attempts |-> 0, handshakes |-> 0,
     token_pre |-> tok, token_post |-> tok, out |-> Raise(NotAuthenticated)]

\* sptrans_adapter.py:149-160  get_route_details() up to the awaited GET.
get_route_details_call(c) ==
    /\ pc[c] = "idle" /\ nops < MaxOps
    /\ \E route \in RouteIdentifiers :
          call' = [call EXCEPT ![c] = [NoCall EXCEPT !.op = "get_route_details", !.route = route]]
    /\ nops' = nops + 1
    /\ handshakes' = [handshakes EXCEPT ![c] = 0]
    /\ IF IsAuthenticated(session_token)
       THEN /\ pc' = [pc EXCEPT ![c] = "details_wait"]
            /\ attempts' = [attempts EXCEPT ![c] = 1]
            /\ outcome' = [outcome EXCEPT ![c] = Pending]
            /\ UNCHANGED last
       ELSE /\ pc' = [pc EXCEPT ![c] = "done"]
            /\ attempts' = [attempts EXCEPT ![c] = 0]
            /\ outcome' = [outcome EXCEPT ![c] = Raise(NotAuthenticated)]
            /\ last' = [last EXCEPT ![c] = Rejected("get_route_details", session_token)]
    /\ UNCHANGED session_token
    /\ UNCHANGED << svars, tvars, mvars >>

\* sptrans_adapter.py:162-189  get_route_details() from the response on.
get_route_details_recv(c) ==
    /\ pc[c] = "details_wait"
    /\ \E r \in DetailResponses(call[c].route) :
          /\ outcome' = [outcome EXCEPT ![c] = route_details(call[c].route, r)]
          /\ call' = [call EXCEPT ![c].resps = Append(@, ResponseTag(r)),
                                   ![c].answers = Append(@, r)]
          /\ last' = [last EXCEPT ![c] =
                 [op |-> "get_route_details", tag |-> ResponseTag(r),
                  attempts |-> attempts[c], handshakes |-> handshakes[c],
                  token_pre |-> session_token, token_post |-> session_token,
                  out |-> route_details(call[c].route, r)]]
    /\ pc' = [pc EXCEPT ![c] = "done"]
    /\ UNCHANGED << session_token, attempts, handshakes, nops >>
    /\ UNCHANGED << svars, tvars, mvars >>

\* route_service.py:44-46 with sptrans_adapter.py:87-99: RouteService.get_bus_positions
\* from its entry to the first awaited GET of the adapter.
get_bus_positions_call(c, lists) ==
    /\ pc[c] = "idle" /\ nops < MaxOps
    /\ nops' = nops + 1
    /\ handshakes' = [handshakes EXCEPT ![c] = 0]
    /\ \E routes \in lists :
          LET started == [NoCall EXCEPT !.op = "get_bus_positions", !.routes = routes] IN
          IF routes = << >>
          THEN /\ call' = [call EXCEPT ![c] = started]
               /\ pc' = [pc EXCEPT ![c] = "done"]
               /\ attempts' = [attempts EXCEPT ![c] = 0]
               /\ outcome' = [outcome EXCEPT ![c] = Return(<< >>)]
               /\ UNCHANGED last
          ELSE IF IsAuthenticated(session_token)
          THEN /\ call' = [call EXCEPT ![c] =
                      [started EXCEPT !.i = 1, !.queries = << routes[1].route_id >>]]
               /\ pc' = [pc EXCEPT ![c] = "positions_wait"]
               /\ attempts' = [attempts EXCEPT ![c] = 1]
               /\ outcome' = [outcome EXCEPT ![c] = Pending]
               /\ UNCHANGED last
          ELSE /\ call' = [call EXCEPT ![c] =
                      [started EXCEPT !.i = 1, !.raised = << NotAuthenticated >>]]
               /\ pc' = [pc EXCEPT ![c] = "done"]
               /\ attempts' = [attempts EXCEPT ![c] = 0]
               /\ outcome' = [outcome EXCEPT ![c] =
                      propagate(<< >>, Raise(NotAuthenticated))]
               /\ last' = [last EXCEPT ![c] = Rejected("get_bus_positions", session_token)]
    /\ UNCHANGED session_token
    /\ UNCHANGED << svars, tvars, mvars >>

\* sptrans_adapter.py:101-125 then route_service.py:45-48: the adapter handles the
\* response and returns its list, the service extends `positions` and either
\* returns or enters the adapter for the next route, up to its awaited GET.
get_bus_positions_recv(c) ==
    /\ pc[c] = "positions_wait"
    /\ LET routes == call[c].routes
           i == call[c].i
       IN \E r \in PositionResponses(routes[i].route_id) :
          LET route_positions == build_positions(routes[i], r)
              positions == extend(call[c].positions, route_positions)
              returned == [call[c] EXCEPT !.positions = positions,
                                          !.perRoute = Append(@, route_positions),
                                          !.resps = Append(@, ResponseTag(r)),
                                          !.answers = Append(@, r)]
              completed == [op |-> "get_bus_positions", tag |-> ResponseTag(r),
                            attempts |-> attempts[c], handshakes |-> handshakes[c],
                            token_pre |-> session_token, token_post |-> session_token,
                            out |-> Return(route_positions)]
          IN IF i = Len(routes)
             THEN /\ call' = [call EXCEPT ![c] = returned]
                  /\ outcome' = [outcome EXCEPT ![c] = Return(positions)]
                  /\ pc' = [pc EXCEPT ![c] = "done"]
                  /\ last' = [last EXCEPT ![c] = completed]
                  /\ UNCHANGED attempts
             ELSE IF IsAuthenticated(session_token)
             THEN /\ call' = [call EXCEPT ![c] =
                         [returned EXCEPT !.i = i + 1,
                                          !.queries = Append(@, routes[i + 1].route_id)]]
                  /\ attempts' = [attempts EXCEPT ![c] = 1]
                  /\ last' = [last EXCEPT ![c] = completed]
                  /\ UNCHANGED << outcome, pc >>
             ELSE /\ call' = [call EXCEPT ![c] =
                         [returned EXCEPT !.i = i + 1, !.raised = << NotAuthenticated >>]]
                  /\ outcome' = [outcome EXCEPT ![c] =
                         propagate(positions, Raise(NotAuthenticated))]
                  /\ pc' = [pc EXCEPT ![c] = "done"]
                  /\ attempts' = [attempts EXCEPT ![c] = 0]
                  /\ last' = [last EXCEPT ![c] = Rejected("get_bus_positions", session_token)]
    /\ UNCHANGED << session_token, handshakes, nops >>
    /\ UNCHANGED << svars, tvars, mvars >>

\* route_service.py:50-63  search_routes up to the awaited provider call.
search_routes_call(c) ==
    /\ pc[c] = "idle" /\ nops < MaxOps
    /\ \E query \in Queries :
          call' = [call EXCEPT ![c] = [NoCall EXCEPT !.op = "search_routes", !.query = query]]
    /\ pc' = [pc EXCEPT ![c] = "search_wait"]
    /\ outcome' = [outcome EXCEPT ![c] = Pending]
    /\ attempts' = [attempts EXCEPT ![c] = 0]
    /\ handshakes' = [handshakes EXCEPT ![c] = 0]
    /\ nops' = nops + 1
    /\ UNCHANGED << session_token, last >>
    /\ UNCHANGED << svars, tvars, mvars >>

\* route_service.py:63  return await self.bus_provider.search_routes(query)
search_routes_return(c) ==
    /\ pc[c] = "search_wait"
    /\ \E out \in SearchOutcomes :
          IF out.kind = "raise"
          THEN /\ call' = [call EXCEPT ![c].raised = Append(@, out.exc)]
               /\ outcome' = [outcome EXCEPT ![c] = propagate(<< >>, out)]
          ELSE /\ call' = [call EXCEPT ![c].perRoute = Append(@, out.value)]
               /\ outcome' = [outcome EXCEPT ![c] = out]
    /\ pc' = [pc EXCEPT ![c] = "done"]
    /\ UNCHANGED << session_token, attempts, handshakes, last, nops >>
    /\ UNCHANGED << svars, tvars, mvars >>

\* The caller takes the result; the client instance lives on.
finish(c) ==
    /\ pc[c] = "done"
    /\ pc' = [pc EXCEPT ![c] = "idle"]
    /\ call' = [call EXCEPT ![c] = NoCall]
    /\ outcome' = [outcome EXCEPT ![c] = Pending]
    /\ UNCHANGED << session_token, attempts, handshakes, last, nops >>
    /\ UNCHANGED << svars, tvars, mvars >>

\* ------------------------------------------------- GTFSRepositoryAdapter
\* "absent" (Python None) and a RouteShape are told apart by the field absent.
Absent == [absent |-> TRUE]

IdLists == UNION { [1..n -> RouteIdentifiers] : n \in 0..MaxIds }

\* Rows a dataset may hold. direction_id is 0/1; shape "s3" has no points.
TripRows ==
    { [route_id |-> "8000", direction_id |-> 0, shape_id |-> "s1"],
      [route_id |-> "8000", direction_id |-> 1, shape_id |-> "s2"],
      [route_id |-> "9000", direction_id |-> 0, shape_id |-> "s3"],
      [route_id |-> "9000", direction_id |-> 0, shape_id |-> "s1"] }

NULL == "NULL"

PointRows ==
    { [shape_id |-> "s1", shape_pt_lat |-> 10, shape_pt_lon |-> 50,
       shape_pt_sequence |-> 2, shape_dist_traveled |-> "10.5"],
      [shape_id |-> "s1", shape_pt_lat |-> 11, shape_pt_lon |-> 51,
       shape_pt_sequence |-> 1, shape_dist_traveled |-> NULL],
      [shape_id |-> "s2", shape_pt_lat |-> 20, shape_pt_lon |-> 60,
       shape_pt_sequence |-> 1, shape_dist_traveled |-> "0.0"],
      [shape_id |-> "s2", shape_pt_lat |-> 21, shape_pt_lon |-> 61,
       shape_pt_sequence |-> 1, shape_dist_traveled |-> "0.0"] }

Datasets == [trips : SUBSET TripRows, shapes : SUBSET PointRows]

\* gtfs_repository_adapter.py:30  direction_id = route.bus_direction - 1
direction_id_Unshifted(route) == route.bus_direction

direction_id(route) == route.bus_direction - 1

\* gtfs_repository_adapter.py:32-40  SELECT DISTINCT shape_id ... LIMIT 1
TripsQuery(route) ==
    [q |-> "trips", route_id |-> route.bus_line, direction_id |-> direction_id(route),
     shape_id |-> NULL]

\* gtfs_repository_adapter.py:49-57  SELECT ... FROM shapes WHERE shape_id = ?
ShapesQuery(shape_id) ==
    [q |-> "shapes", route_id |-> NULL, direction_id |-> -1, shape_id |-> shape_id]

\* The shape ids the first statement selects from; LIMIT 1 without ORDER BY
\* returns any one of them.
MatchingShapeIds(db, query) ==
    { t.shape_id : t \in { t \in db.trips : /\ t.route_id = query.route_id
                                            /\ t.direction_id = query.direction_id } }

\* cursor.fetchone(): a row or None.
FetchOne(ids) == IF ids = {} THEN { NULL } ELSE ids

\* cursor.fetchall() of the second statement: the rows of the shape id in
\* ascending shape_pt_sequence, rows of equal sequence in any order.
FetchAll_Unordered(db, shape_id) ==
    LET rows == { p \in db.shapes : p.shape_id = shape_id }
    IN { f \in [1..Cardinality(rows) -> rows] :
           \A i, j \in 1..Cardinality(rows) : i # j => f[i] # f[j] }

FetchAll(db, shape_id) ==
    LET rows == { p \in db.shapes : p.shape_id = shape_id }
    IN { f \in [1..Cardinality(rows) -> rows] :
           /\ \A i, j \in 1..Cardinality(rows) : i # j => f[i] # f[j]
           /\ \A i, j \in 1..Cardinality(rows) :
                 i < j => f[i].shape_pt_sequence <= f[j].shape_pt_sequence }

\* gtfs_repository_adapter.py:61-68
make_point_ZeroDefault(row) ==
    [coordinate |-> [latitude |-> row.shape_pt_lat, longitude |-> row.shape_pt_lon],
     sequence |-> row.shape_pt_sequence,
     distance_traveled |-> IF row.shape_dist_traveled = NULL THEN "0.0"
                           ELSE row.shape_dist_traveled]

make_point(row) ==
    [coordinate |-> [latitude |-> row.shape_pt_lat, longitude |-> row.shape_pt_lon],
     sequence |-> row.shape_pt_sequence,
     distance_traveled |-> IF row.shape_dist_traveled = NULL THEN None
                           ELSE row.shape_dist_traveled]

DbError == "sqlite3.OperationalError"

Faults == {"none", "trips_query", "shapes_query"}

\* gtfs_repository_adapter.py:17-78  get_route_shape, given what the statements
\* fetch (row: a shape id or NULL; rows: the ordered point rows) and the
\* statement, if any, at which the database raises.
get_route_shape_KeepEmpty(route, row, rows, fault) ==
    IF fault = "trips_query"
    THEN [out |-> Raise(DbError), sql |-> << TripsQuery(route) >>]
    ELSE IF row = NULL
    THEN [out |-> Return(Absent), sql |-> << TripsQuery(route) >>]
    ELSE IF fault = "shapes_query"
    THEN [out |-> Raise(DbError), sql |-> << TripsQuery(route), ShapesQuery(row) >>]
    ELSE [out |-> Return([absent |-> FALSE, route |-> route, shape_id |-> row,
                          points |-> [k \in 1..Len(rows) |-> make_point(rows[k])]]),
          sql |-> << TripsQuery(route), ShapesQuery(row) >>]

get_route_shape(route, row, rows, fault) ==
    IF fault = "trips_query"
    THEN [out |-> Raise(DbError), sql |-> << TripsQuery(route) >>]
    ELSE IF row = NULL
    THEN [out |-> Return(Absent), sql |-> << TripsQuery(route) >>]
    ELSE IF fault = "shapes_query"
    THEN [out |-> Raise(DbError), sql |-> << TripsQuery(route), ShapesQuery(row) >>]
    ELSE IF rows = << >>
    THEN [out |-> Return(Absent), sql |-> << TripsQuery(route), ShapesQuery(row) >>]
    ELSE [out |-> Return([absent |-> FALSE, route |-> route, shape_id |-> row,
                          points |-> [k \in 1..Len(rows) |-> make_point(rows[k])]]),
          sql |-> << TripsQuery(route), ShapesQuery(row) >>]

\* route_service.py:78-79  if shape is not None: shapes.append(shape)
keep_found_All(shapes, shape) == Append(shapes, shape)

keep_found(shapes, shape) == IF shape # Absent THEN Append(shapes, shape) ELSE shapes

ShapesIdle ==
    /\ s_pc = "idle"
    /\ s_routes = << >>
    /\ s_i = 0
    /\ s_shapes = << >>
    /\ s_outcome = Pending
    /\ s_calls = << >>
    /\ s_results = << >>
    /\ s_sql = << >>
    /\ s_nops = 0

\* route_service.py:65-75  get_route_shapes entered: shapes = [].
get_route_shapes_call ==
    /\ s_pc = "idle" /\ s_nops < MaxShapeCalls
    /\ \E routes \in IdLists : s_routes' = routes
    /\ s_pc' = "loop"
    /\ s_i' = 0
    /\ s_shapes' = << >>
    /\ s_outcome' = Pending
    /\ s_calls' = << >>
    /\ s_results' = << >>
    /\ s_sql' = << >>
    /\ s_nops' = s_nops + 1
    /\ UNCHANGED gtfs
    /\ UNCHANGED << pvars, tvars, mvars >>

\* route_service.py:76-79  what one iteration does with the repository's
\* answer: there is no try/except, so an exception leaves the function.
lookup_done_Swallow(shapes, out) ==
    IF out.kind = "raise"
    THEN [pc |-> "loop", shapes |-> shapes, outcome |-> Pending]
    ELSE [pc |-> "loop", shapes |-> keep_found(shapes, out.value), outcome |-> Pending]

lookup_done(shapes, out) ==
    IF out.kind = "raise"
    THEN [pc |-> "done", shapes |-> shapes, outcome |-> out]
    ELSE [pc |-> "loop", shapes |-> keep_found(shapes, out.value), outcome |-> Pending]

\* route_service.py:76-79  one iteration: the repository is asked for the next
\* identifier.
get_route_shapes_step ==
    /\ s_pc = "loop" /\ s_i < Len(s_routes)
    /\ LET route == s_routes[s_i + 1] IN
       \E fault \in Faults :
       \E row \in FetchOne(MatchingShapeIds(gtfs, TripsQuery(route))) :
       \E rows \in (IF row = NULL THEN { << >> } ELSE FetchAll(gtfs, row)) :
          LET res == get_route_shape(route, row, rows, fault)
              after == lookup_done(s_shapes, res.out)
          IN /\ s_calls' = Append(s_calls, route)
             /\ s_results' = Append(s_results, res.out)
             /\ s_sql' = Append(s_sql, res.sql)
             /\ s_i' = s_i + 1
             /\ s_pc' = after.pc
             /\ s_shapes' = after.shapes
             /\ s_outcome' = after.outcome
    /\ UNCHANGED << gtfs, s_routes, s_nops >>
    /\ UNCHANGED << pvars, tvars, mvars >>

\* route_service.py:80  return shapes
get_route_shapes_return_NoneWhenEmpty ==
    /\ s_pc = "loop" /\ s_i = Len(s_routes)
    /\ s_outcome' = IF s_shapes = << >> THEN Raise("ValueError") ELSE Return(s_shapes)
    /\ s_pc' = "done"
    /\ UNCHANGED << gtfs, s_routes, s_i, s_shapes, s_calls, s_results, s_sql, s_nops >>
    /\ UNCHANGED << pvars, tvars, mvars >>

get_route_shapes_return ==
    /\ s_pc = "loop" /\ s_i = Len(s_routes)
    /\ s_outcome' = Return(s_shapes)
    /\ s_pc' = "done"
    /\ UNCHANGED << gtfs, s_routes, s_i, s_shapes, s_calls, s_results, s_sql, s_nops >>
    /\ UNCHANGED << pvars, tvars, mvars >>

\* The caller takes the result.
shapes_finish ==
    /\ s_pc = "done"
    /\ s_pc' = "idle"
    /\ UNCHANGED << gtfs, s_routes, s_i, s_shapes, s_outcome, s_calls, s_results,
                    s_sql, s_nops >>
    /\ UNCHANGED << pvars, tvars, mvars >>

\* --------------------------------------------- users and trips (SQL database)
MaxRequests == 4     \* HTTP requests over a behaviour of SpecTrips

\* trip_service.py:69  score = (distance // 1000) * 77
MetersPerKm == 1000
PointsPerKm == 77

Emails == {"ann@example.com", "bob@example.com"}
Names == {"Ann", "Bob"}
Passwords == {"pw1", "pw2"}
Distances == {-150, 0, 999, 1500, 2000}

\* hashing.py:10-11  the stored password is a digest, never the plain text.
hash(plain) == IF plain = "pw1" THEN "$bcrypt-sha256$pw1" ELSE "$bcrypt-sha256$pw2"

\* user.py:6-21
User(name, email, password, score) ==
    [name |-> name, email |-> email, score |-> score, password |-> password]

\* trip.py:7-28
Trip(email, bus_line, bus_direction, distance, score, start_date, end_date) ==
    [email |-> email, bus_line |-> bus_line, bus_direction |-> bus_direction,
     distance |-> distance, score |-> score, start_date |-> start_date,
     end_date |-> end_date]

UserNotFound == "ValueError: User with email not found"
NegativeDistance == "ValueError: distance must be non-negative"
UserExists == "ValueError: User with email already exists"
MultipleResultsFound == "sqlalchemy.exc.MultipleResultsFound"
SqlError == "sqlalchemy.exc.OperationalError"

NoRequest ==
    [op |-> "none", email |-> "", name |-> "", password |-> "", distance |-> 0,
     bus_line |-> "", bus_direction |-> 0, trip_date |-> ""]

\* user_repository_adapter.py:74-80  SELECT ... WHERE email = ?, then
\* scalar_one_or_none(): the row, None, or an error on several rows.
get_user_by_email(rows, email) ==
    LET found == { u \in rows : u.email = email } IN
    IF found = {} THEN Return(Absent)
    ELSE IF Cardinality(found) = 1 THEN Return(CHOOSE u \in found : TRUE)
    ELSE Raise(MultipleResultsFound)

\* user_repository_adapter.py:109-111  UPDATE users SET score = score + ? WHERE email = ?
add_score_Overwrite(rows, email, score_to_add) ==
    { IF u.email = email THEN [u EXCEPT !.score = score_to_add] ELSE u : u \in rows }

add_score(rows, email, score_to_add) ==
    { IF u.email = email THEN [u EXCEPT !.score = @ + score_to_add] ELSE u : u \in rows }

\* user_repository_adapter.py:94-118  add_user_score on the session's rows; the
\* statement, if any, at which the database raises is `fault`.
add_user_score(rows, email, score_to_add, fault) ==
    IF fault = "update" THEN [out |-> Raise(SqlError), rows |-> rows]
    ELSE LET updated == add_score(rows, email, score_to_add)
             user == get_user_by_email(updated, email)
         IN IF fault = "select" THEN [out |-> Raise(SqlError), rows |-> updated]
            ELSE IF user.kind = "raise" THEN [out |-> user, rows |-> updated]
            ELSE IF user.value = Absent THEN [out |-> Raise(UserNotFound), rows |-> updated]
            ELSE [out |-> user, rows |-> updated]

\* user_repository_adapter.py:36-62  save_user: the email is looked up again
\* before the INSERT, so the primary key (models.py:24) never rejects it.
save_user(rows, user, fault) ==
    IF fault = "select" THEN [out |-> Raise(SqlError), rows |-> rows]
    ELSE LET existing == get_user_by_email(rows, user.email)
         IN IF existing.kind = "raise" THEN [out |-> existing, rows |-> rows]
            ELSE IF existing.value # Absent THEN [out |-> Raise(UserExists), rows |-> rows]
            ELSE IF fault = "flush" THEN [out |-> Raise(SqlError), rows |-> rows]
            ELSE [out |-> Return(user), rows |-> rows \cup { user }]

\* trip_repository_adapter.py:28-49  save_trip: INSERT with the next id, flush.
save_trip(rows, trip, fault) ==
    IF fault = "flush" THEN [out |-> Raise(SqlError), rows |-> rows]
    ELSE [out |-> Return(trip), rows |-> Append(rows, trip)]

\* user_service.py:43-44  if existing_user: raise ValueError
service_rejects_Never(existing) == FALSE

service_rejects(existing) == existing # Absent

\* trip_service.py:69
trip_score_Proportional(distance) == (distance * PointsPerKm) \div MetersPerKm

trip_score(distance) == (distance \div MetersPerKm) * PointsPerKm

\* trip_service.py:61-69  the checks create_trip makes before it builds the trip.
create_trip_validate_UserOnly(user, distance) ==
    IF user = Absent THEN Raise(UserNotFound) ELSE Return(trip_score(distance))

create_trip_validate(user, distance) ==
    IF user = Absent THEN Raise(UserNotFound)
    ELSE IF distance < 0 THEN Raise(NegativeDistance)
    ELSE Return(trip_score(distance))

\* trip_service.py:72-80
make_trip(req, score) ==
    Trip(req.email, req.bus_line, req.bus_direction, req.distance, score,
         req.trip_date, req.trip_date)

\* One repository call as the service made it: the method, the email it
\* concerns, the score it carries, and how it ended.
RepoCall(fn, email, score, out) == [fn |-> fn, email |-> email, score |-> score, out |-> out]

ResultTag(out) ==
    IF out.kind = "raise" THEN "raise" ELSE IF out.value = Absent THEN "none" ELSE "found"

\* user_repository_adapter.py:89-92  SELECT ... ORDER BY score DESC: every row
\* once, scores never increasing; rows of equal score come in any order.
get_all_users_ordered_by_score(rows) ==
    { l \in [1..Cardinality(rows) -> rows] :
         /\ \A i, j \in DOMAIN l : i # j => l[i] # l[j]
         /\ \A i, j \in DOMAIN l : i < j => l[i].score >= l[j].score }

\* score_service.py:38  the answer for an email that is not in the list.
NoRank == [absent |-> TRUE]

\* score_service.py:36  the answer for an email found at a position.
Rank(index) == [absent |-> FALSE, rank |-> index]

rank_of_ZeroBased(all_users, email) ==
    IF \E i \in DOMAIN all_users : all_users[i].email = email
    THEN Rank((CHOOSE i \in DOMAIN all_users :
                 /\ all_users[i].email = email
                 /\ \A j \in 1..(i - 1) : all_users[j].email # email) - 1)
    ELSE NoRank

\* score_service.py:34-38  enumerate(all_users, start=1): the index of the
\* first user with the email, None when the loop ends without one.
rank_of(all_users, email) ==
    IF \E i \in DOMAIN all_users : all_users[i].email = email
    THEN Rank(CHOOSE i \in DOMAIN all_users :
                 /\ all_users[i].email = email
                 /\ \A j \in 1..(i - 1) : all_users[j].email # email)
    ELSE NoRank

\* An empty database and no request in progress.
TripsInit ==
    /\ db_users = {} /\ db_trips = << >>
    /\ tx_users = {} /\ tx_trips = << >>
    /\ t_session = << >>
    /\ t_pc = "idle"
    /\ t_req = NoRequest
    /\ t_score = 0
    /\ t_calls = << >>
    /\ t_outcome = Pending
    /\ t_pre = [users |-> {}, trips |-> << >>]
    /\ t_nreq = 0

\* connection.py:44-46  a request begins: its session is opened and handed to
\* the repositories of the service.
open_session ==
    /\ t_pc \in {"idle", "done"} /\ t_nreq < MaxRequests
    /\ tx_users' = db_users /\ tx_trips' = db_trips
    /\ t_session' = << "begin" >>
    /\ t_score' = 0
    /\ t_calls' = << >>
    /\ t_outcome' = Pending
    /\ t_pre' = [users |-> db_users, trips |-> db_trips]
    /\ t_nreq' = t_nreq + 1
    /\ UNCHANGED << db_users, db_trips >>

\* user_service.py:26-41  create_user entered.
create_user_begin ==
    /\ open_session
    /\ \E name \in Names, email \in Emails, password \in Passwords :
          t_req' = [NoRequest EXCEPT !.op = "create_user", !.name = name,
                                     !.email = email, !.password = password]
    /\ t_pc' = "check"
    /\ UNCHANGED << pvars, svars, mvars >>

\* user_service.py:42-44  the email is looked up; an existing user ends the call.
create_user_check ==
    /\ t_pc = "check"
    /\ \E fault \in BOOLEAN :
          LET existing == IF fault THEN Raise(SqlError)
                          ELSE get_user_by_email(tx_users, t_req.email)
          IN /\ t_calls' = Append(t_calls, RepoCall("get_user_by_email", t_req.email, 0,
                                                   ResultTag(existing)))
             /\ IF existing.kind = "raise"
                THEN t_outcome' = existing /\ t_pc' = "raised"
                ELSE IF service_rejects(existing.value)
                THEN t_outcome' = Raise(UserExists) /\ t_pc' = "raised"
                ELSE t_outcome' = Pending /\ t_pc' = "save_user"
    /\ UNCHANGED << db_users, db_trips, tx_users, tx_trips, t_session, t_req, t_score,
                    t_pre, t_nreq >>
    /\ UNCHANGED << pvars, svars, mvars >>

\* user_service.py:46-48  the password is hashed, the user built with score 0
\* and handed to save_user, whose result is create_user's.
create_user_save ==
    /\ t_pc = "save_user"
    /\ \E fault \in {"none", "select", "flush"} :
          LET user == User(t_req.name, t_req.email, hash(t_req.password), 0)
              res == save_user(tx_users, user, fault)
          IN /\ t_calls' = Append(t_calls, RepoCall("save_user", user.email, user.score,
                                     IF res.out.kind = "raise" THEN "raise" ELSE "ok"))
             /\ tx_users' = res.rows
             /\ t_outcome' = res.out
             /\ t_pc' = IF res.out.kind = "raise" THEN "raised" ELSE "returned"
    /\ UNCHANGED << db_users, db_trips, tx_trips, t_session, t_req, t_score, t_pre, t_nreq >>
    /\ UNCHANGED << pvars, svars, mvars >>

\* trip_service.py:32-58  create_trip entered.
create_trip_begin ==
    /\ open_session
    /\ \E email \in Emails, distance \in Distances :
          t_req' = [NoRequest EXCEPT !.op = "create_trip", !.email = email,
                                     !.distance = distance, !.bus_line = "8000",
                                     !.bus_direction = 1,
                                     !.trip_date = "2025-11-15T12:00:00"]
    /\ t_pc' = "lookup"
    /\ UNCHANGED << pvars, svars, mvars >>

\* trip_service.py:60-80  the user is looked up, the distance checked, the
\* score computed and the trip built.
create_trip_lookup ==
    /\ t_pc = "lookup"
    /\ \E fault \in BOOLEAN :
          LET user == IF fault THEN Raise(SqlError)
                      ELSE get_user_by_email(tx_users, t_req.email)
              checked == IF user.kind = "raise" THEN user
                         ELSE create_trip_validate(user.value, t_req.distance)
          IN /\ t_calls' = Append(t_calls, RepoCall("get_user_by_email", t_req.email, 0,
                                                   ResultTag(user)))
             /\ IF checked.kind = "raise"
                THEN t_outcome' = checked /\ t_pc' = "raised" /\ t_score' = t_score
                ELSE t_outcome' = Pending /\ t_pc' = "save" /\ t_score' = checked.value
    /\ UNCHANGED << db_users, db_trips, tx_users, tx_trips, t_session, t_req, t_pre, t_nreq >>
    /\ UNCHANGED << pvars, svars, mvars >>

\* trip_service.py:83  saved_trip = await self.trip_repository.save_trip(trip)
create_trip_save_IgnoreError ==
    /\ t_pc = "save"
    /\ \E fault \in {"none", "flush"} :
          LET trip == make_trip(t_req, t_score)
              res == save_trip(tx_trips, trip, fault)
          IN /\ t_calls' = Append(t_calls, RepoCall("save_trip", trip.email, trip.score,
                                     IF res.out.kind = "raise" THEN "raise" ELSE "ok"))
             /\ tx_trips' = res.rows
             /\ t_outcome' = Pending /\ t_pc' = "add_score"
    /\ UNCHANGED << db_users, db_trips, tx_users, t_session, t_req, t_score, t_pre, t_nreq >>
    /\ UNCHANGED << pvars, svars, mvars >>

create_trip_save ==
    /\ t_pc = "save"
    /\ \E fault \in {"none", "flush"} :
          LET trip == make_trip(t_req, t_score)
              res == save_trip(tx_trips, trip, fault)
          IN /\ t_calls' = Append(t_calls, RepoCall("save_trip", trip.email, trip.score,
                                     IF res.out.kind = "raise" THEN "raise" ELSE "ok"))
             /\ tx_trips' = res.rows
             /\ IF res.out.kind = "raise"
                THEN t_outcome' = res.out /\ t_pc' = "raised"
                ELSE t_outcome' = Pending /\ t_pc' = "add_score"
    /\ UNCHANGED << db_users, db_trips, tx_users, t_session, t_req, t_score, t_pre, t_nreq >>
    /\ UNCHANGED << pvars, svars, mvars >>

\* trip_service.py:86-88  the score is added to the user, the saved trip returned.
create_trip_add_score ==
    /\ t_pc = "add_score"
    /\ \E fault \in {"none", "update", "select"} :
          LET res == add_user_score(tx_users, t_req.email, t_score, fault)
          IN /\ t_calls' = Append(t_calls, RepoCall("add_user_score", t_req.email, t_score,
                                     IF res.out.kind = "raise" THEN "raise" ELSE "ok"))
             /\ tx_users' = res.rows
             /\ IF res.out.kind = "raise"
                THEN t_outcome' = res.out /\ t_pc' = "raised"
                ELSE t_outcome' = Return(make_trip(t_req, t_score)) /\ t_pc' = "returned"
    /\ UNCHANGED << db_users, db_trips, tx_trips, t_session, t_req, t_score, t_pre, t_nreq >>
    /\ UNCHANGED << pvars, svars, mvars >>

\* score_service.py:22-31  get_user_ranking entered.
get_user_ranking_begin ==
    /\ open_session
    /\ \E email \in Emails :
          t_req' = [NoRequest EXCEPT !.op = "get_user_ranking", !.email = email]
    /\ t_pc' = "rank"
    /\ UNCHANGED << pvars, svars, mvars >>

\* score_service.py:32-38  the ordered list is read once and searched.
get_user_ranking_read ==
    /\ t_pc = "rank"
    /\ \/ \E all_users \in get_all_users_ordered_by_score(tx_users) :
            /\ t_calls' = Append(t_calls,
                  [fn |-> "get_all_users_ordered_by_score", email |-> "", score |-> 0,
                   out |-> "ok", rows |-> all_users])
            /\ t_outcome' = Return(rank_of(all_users, t_req.email))
            /\ t_pc' = "returned"
       \/ /\ t_calls' = Append(t_calls,
                  [fn |-> "get_all_users_ordered_by_score", email |-> "", score |-> 0,
                   out |-> "raise", rows |-> << >>])
          /\ t_outcome' = Raise(SqlError)
          /\ t_pc' = "raised"
    /\ UNCHANGED << db_users, db_trips, tx_users, tx_trips, t_session, t_req, t_score,
                    t_pre, t_nreq >>
    /\ UNCHANGED << pvars, svars, mvars >>

\* rank_controller.py:40-47  the route turns "no position" into an
\* HTTPException; trip_controller.py:73-77 and user_controller.py:107-111 turn
\* a ValueError into one: either way an exception reaches get_db.
request_raises ==
    \/ t_pc = "raised"
    \/ (t_req.op = "get_user_ranking" /\ t_pc = "returned" /\ t_outcome.value.absent)

\* connection.py:46-52 with a session that commits whatever happened.
request_end_CommitAlways ==
    /\ t_pc \in {"returned", "raised"}
    /\ db_users' = tx_users /\ db_trips' = tx_trips
    /\ t_session' = t_session \o << "commit", "close" >>
    /\ t_outcome' = t_outcome
    /\ tx_users' = db_users' /\ tx_trips' = db_trips'
    /\ t_pc' = "done"
    /\ UNCHANGED << t_req, t_score, t_calls, t_pre, t_nreq >>
    /\ UNCHANGED << pvars, svars, mvars >>

\* connection.py:46-52  the request ends: commit after a normal return; after
\* an exception, a failing commit included, rollback and re-raise; close in
\* every case. A commit or rollback that fails raises the database's error.
request_end ==
    /\ t_pc \in {"returned", "raised"}
    /\ \E commit_fails, rollback_fails \in BOOLEAN :
          LET rollback == IF rollback_fails THEN << "rollback failed" >>
                          ELSE << "rollback" >>
          IN IF request_raises
             THEN /\ ~commit_fails
                  /\ UNCHANGED << db_users, db_trips >>
                  /\ t_session' = t_session \o rollback \o << "close" >>
                  /\ t_outcome' = IF rollback_fails THEN Raise(SqlError) ELSE t_outcome
             ELSE IF commit_fails
             THEN /\ UNCHANGED << db_users, db_trips >>
                  /\ t_session' = t_session \o << "commit failed" >> \o rollback
                                             \o << "close" >>
                  /\ t_outcome' = Raise(SqlError)
             ELSE /\ ~rollback_fails
                  /\ db_users' = tx_users /\ db_trips' = tx_trips
                  /\ t_session' = t_session \o << "commit", "close" >>
                  /\ t_outcome' = t_outcome
    /\ tx_users' = db_users' /\ tx_trips' = db_trips'
    /\ t_pc' = "done"
    /\ UNCHANGED << t_req, t_score, t_calls, t_pre, t_nreq >>
    /\ UNCHANGED << pvars, svars, mvars >>

\* ------------------------------------------------------ schema mappers
\* sptrans_schemas.py:12-23  SPTransLineInfo by its wire names: cl route code,
\* lc circular, lt line number, sl direction (any int on the wire), tl line
\* suffix, tp / ts primary / secondary terminal.
LineInfos ==
    [cl : {1, 33}, lc : BOOLEAN, lt : {"8000", "809"}, sl : {1, 2, 3}, tl : {10, 21},
     tp : {"Term A", "Lapa"}, ts : {"Term B", "Lapa"}]

NoLineInfo == [cl |-> 0, lc |-> FALSE, lt |-> "", sl |-> 1, tl |-> 0, tp |-> "", ts |-> ""]

\* bus.py:10,23  bus_direction: Literal[1, 2]; another value fails validation.
ValidationError == "pydantic.ValidationError"

\* sptrans_mappers.py:70  f"{line_info.line_number}-{line_info.line_sufix}"
format_bus_line(line_info) == line_info.lt \o "-" \o ToString(line_info.tl)

\* sptrans_mappers.py:49-51
terminal_name_AlwaysPrimary(line_info) == line_info.tp

terminal_name(line_info) == IF line_info.sl = 1 THEN line_info.tp ELSE line_info.ts

\* sptrans_mappers.py:60-74
map_line_info_to_route_identifier(line_info) ==
    IF line_info.sl \in {1, 2}
    THEN Return([bus_line |-> format_bus_line(line_info), bus_direction |-> line_info.sl])
    ELSE Raise(ValidationError)

\* sptrans_mappers.py:38-57
map_line_info_to_bus_route(line_info) ==
    LET route == map_line_info_to_route_identifier(line_info)
    IN IF route.kind = "raise" THEN route
       ELSE Return([route_id |-> line_info.cl, route |-> route.value,
                    is_circular |-> line_info.lc,
                    terminal_name |-> terminal_name(line_info)])

MapperIdle == m_item = NoLineInfo /\ m_out = Pending /\ m_pc = "idle"

\* The mapper is applied to the entry at hand.
map_entry ==
    /\ m_pc = "idle"
    /\ m_out' = map_line_info_to_bus_route(m_item)
    /\ m_pc' = "done"
    /\ UNCHANGED m_item
    /\ UNCHANGED << pvars, svars, tvars >>

\* sptrans_mappers.py:33-34  the next entry of a search response.
next_entry ==
    /\ m_pc = "done"
    /\ m_item' \in LineInfos
    /\ m_out' = Pending
    /\ m_pc' = "idle"
    /\ UNCHANGED << pvars, svars, tvars >>

\* ------------------------------------------------------------ specifications
vars == << pvars, svars, tvars, mvars >>

EmptyDataset == [trips |-> {}, shapes |-> {}]

\* One logical request at a time on the client.
Init == ProviderInit /\ ShapesIdle /\ gtfs = EmptyDataset /\ TripsInit /\ MapperIdle

Next ==
    \/ authenticate_send(FirstCaller)
    \/ authenticate_recv(FirstCaller)
    \/ get_route_details_call(FirstCaller)
    \/ get_route_details_recv(FirstCaller)
    \/ get_bus_positions_call(FirstCaller, RouteLists)
    \/ get_bus_positions_recv(FirstCaller)
    \/ search_routes_call(FirstCaller)
    \/ search_routes_return(FirstCaller)
    \/ finish(FirstCaller)

Spec == Init /\ [][Next]_vars

\* Two logical requests sharing the client instance, their steps interleaved.
InitShared == ProviderInit /\ ShapesIdle /\ gtfs = EmptyDataset /\ TripsInit /\ MapperIdle

NextShared ==
    \E c \in Callers :
        \/ authenticate_send(c)
        \/ authenticate_recv(c)
        \/ get_route_details_call(c)
        \/ get_route_details_recv(c)
        \/ get_bus_positions_call(c, SharedRouteLists)
        \/ get_bus_positions_recv(c)
        \/ search_routes_call(c)
        \/ search_routes_return(c)
        \/ finish(c)

SpecShared == InitShared /\ [][NextShared]_vars

\* get_route_shapes over any dataset.
InitShapes == ProviderInit /\ ShapesIdle /\ gtfs \in Datasets /\ TripsInit /\ MapperIdle

NextShapes ==
    \/ get_route_shapes_call
    \/ get_route_shapes_step
    \/ get_route_shapes_return
    \/ shapes_finish

SpecShapes == InitShapes /\ [][NextShapes]_vars

\* Registrations and trips against an initially empty database.
InitTrips == ProviderInit /\ ShapesIdle /\ gtfs = EmptyDataset /\ TripsInit /\ MapperIdle

NextTrips ==
    \/ create_user_begin
    \/ create_user_check
    \/ create_user_save
    \/ create_trip_begin
    \/ create_trip_lookup
    \/ create_trip_save
    \/ create_trip_add_score
    \/ get_user_ranking_begin
    \/ get_user_ranking_read
    \/ request_end

SpecTrips == InitTrips /\ [][NextTrips]_vars

\* The mapper over every search-result entry of LineInfos.
InitMapper ==
    /\ ProviderInit /\ ShapesIdle /\ gtfs = EmptyDataset /\ TripsInit
    /\ m_item \in LineInfos /\ m_out = Pending /\ m_pc = "idle"

NextMapper == map_entry \/ next_entry

SpecMapper == InitMapper /\ [][NextMapper]_vars

\* ---------------------------------------------------- claims on the provider
ProviderOps == {"get_bus_positions", "get_route_details"}

RECURSIVE Flatten(_)
Flatten(lists) == IF lists = << >> THEN << >> ELSE Head(lists) \o Flatten(Tail(lists))

C2_PersistentUnauthorizedIsFatal ==
    \A c \in Callers :
        (last[c].op \in ProviderOps /\ last[c].tag = "unauthorized")
            => (last[c].attempts <= 2 /\ last[c].out.kind = "raise")

\* C3 (as claimed): an adapter call entered while the session is Unauthenticated
\* performed the handshake itself.
C3_AuthenticatesOnDemand ==
    \A c \in Callers :
        (last[c].op \in ProviderOps /\ last[c].token_pre = None)
            => last[c].handshakes >= 1

\* C3 (amended): the client starts Unauthenticated, and an adapter call entered
\* while the session is Unauthenticated performs no handshake, sends no request,
\* raises RuntimeError("not authenticated") and leaves the session
\* Unauthenticated: the caller has to call authenticate() first.
C3_CallerMustAuthenticateFirst ==
    /\ nops = 0 => session_token = None
    /\ \A c \in Callers :
        (last[c].op \in ProviderOps /\ last[c].token_pre = None)
            => /\ last[c].handshakes = 0
               /\ last[c].attempts = 0
               /\ last[c].out.kind = "raise"
               /\ last[c].out.exc = NotAuthenticated
               /\ last[c].token_post = None

C3_Witness ==
    \E c, d \in Callers :
        /\ last[c].op = "get_bus_positions" /\ last[c].token_pre = None
        /\ last[d].op = "get_route_details" /\ last[d].token_pre = None

\* C4 (as claimed): a rejected or failed handshake is surfaced as an error and
\* the session is Unauthenticated afterwards.
C4_FailedHandshakeRaises ==
    \A c \in Callers :
        (last[c].op = "authenticate" /\ last[c].tag = "failed")
            => (last[c].out.kind = "raise" /\ last[c].token_post = None)

\* C4 (amended): a rejected or failed handshake makes authenticate() return
\* False without raising, is not retried, sends no other request, and leaves
\* the session state as it was before the response was handled.
C4_FailedHandshakeReturnsFalse ==
    \A c \in Callers :
        (last[c].op = "authenticate" /\ last[c].tag = "failed")
            => /\ last[c].out.kind = "return"
               /\ last[c].out.value = FALSE
               /\ last[c].handshakes = 1
               /\ last[c].attempts = 0
               /\ last[c].token_post = last[c].token_pre

C4_Witness ==
    \E c, d \in Callers :
        /\ last[c].op = "authenticate" /\ last[c].tag = "failed" /\ last[c].token_pre = None
        /\ last[d].op = "authenticate" /\ last[d].tag = "failed"
        /\ last[d].token_pre = "authenticated"

\* C5 (as claimed): a get_bus_positions call in which the query of some route
\* could not be completed ends with an error, not with a list.
C5_AllOrNothing ==
    \A c \in Callers :
        (/\ pc[c] = "done" /\ call[c].op = "get_bus_positions"
         /\ \E i \in 1..Len(call[c].resps) : call[c].resps[i] # "ok")
            => outcome[c].kind = "raise"

C11_NoMatchReturnsEmptyList ==
    \A c \in Callers :
        (/\ pc[c] = "done" /\ call[c].op = "get_route_details"
         /\ call[c].answers = << Http(200, "", LinesBody(<< >>)) >>)
            => (outcome[c].kind = "return" /\ outcome[c].value = << >>)

\* The routes a search that skips malformed entries returns: one per entry that
\* carries the line code, in the provider's order.
RECURSIVE WellFormedRoutes(_, _)
WellFormedRoutes(data, route) ==
    IF data = << >> THEN << >>
    ELSE (IF Head(data).has_cl
          THEN << [route_id |-> Head(data).cl, route |-> route] >> ELSE << >>)
            \o WellFormedRoutes(Tail(data), route)

\* C12 (as claimed): a line search answered with a list in which some entry
\* lacks the line code does not fail and returns exactly the routes of the
\* well-formed entries, in order (the single BusRoute the code returns is read
\* as a one-route result).
C12_MalformedEntriesSkipped ==
    \A c \in Callers :
        (/\ pc[c] = "done" /\ call[c].op = "get_route_details"
         /\ Len(call[c].answers) = 1
         /\ call[c].answers[1].kind = "http" /\ call[c].answers[1].status = 200
         /\ call[c].answers[1].body.type = "lines"
         /\ \E i \in 1..Len(call[c].answers[1].body.data) :
               ~call[c].answers[1].body.data[i].has_cl)
            => /\ outcome[c].kind = "return"
               /\ << outcome[c].value >>
                     = WellFormedRoutes(call[c].answers[1].body.data, call[c].route)

\* C13: whenever the provider client has raised during RouteService's
\* get_bus_positions or search_routes, the service call has ended with that same
\* exception, unchanged, returns no list, and has made no further provider call.
C13_ProviderExceptionPropagates ==
    \A c \in Callers :
        (call[c].op \in {"get_bus_positions", "search_routes"} /\ call[c].raised # << >>)
            => /\ pc[c] = "done"
               /\ outcome[c].kind = "raise"
               /\ outcome[c].exc = call[c].raised[1]
               /\ Len(call[c].raised) = 1
               /\ call[c].op = "get_bus_positions" =>
                     Len(call[c].queries) = call[c].i - 1

C13_Witness ==
    \E c, d \in Callers :
        /\ pc[c] = "done" /\ call[c].op = "search_routes"
        /\ call[c].raised = << "RuntimeError: boom" >>
        /\ pc[d] = "done" /\ call[d].op = "get_bus_positions"
        /\ call[d].raised = << NotAuthenticated >>

\* What C14 requires of one step.
C14_Step ==
    /\ (session_token = None /\ session_token' # None) =>
          \E c \in Callers :
              /\ pc[c] = "auth_wait" /\ pc'[c] = "done"
              /\ last'[c].tag = "ok" /\ outcome'[c].value = TRUE
    /\ \A c \in Callers :
          (/\ session_token = None
           /\ pc[c] = "idle" /\ pc'[c] # "idle"
           /\ call'[c].op \in ProviderOps
           /\ call'[c].op = "get_bus_positions" => call'[c].routes # << >>)
             => /\ pc'[c] = "done"
                /\ outcome'[c].kind = "raise"
                /\ outcome'[c].exc = NotAuthenticated
                /\ attempts'[c] = 0 /\ handshakes'[c] = 0
                /\ call'[c].queries = << >>
                /\ session_token' = None

\* C14: the session leaves Unauthenticated only in the step in which
\* authenticate() handles an accepted handshake, and as long as none has been
\* accepted, get_route_details and get_bus_positions end at once with
\* RuntimeError("not authenticated"): no request is sent, no handshake made.
C14_UnauthenticatedClientRefuses == [][C14_Step]_vars

C14_Witness ==
    \E c, d \in Callers :
        /\ session_token = None
        /\ pc[c] = "done" /\ call[c].op = "get_route_details"
        /\ outcome[c].kind = "raise" /\ outcome[c].exc = NotAuthenticated
        /\ pc[d] = "done" /\ call[d].op = "get_bus_positions"
        /\ outcome[d].kind = "raise" /\ outcome[d].exc = NotAuthenticated
        /\ attempts[c] = 0 /\ attempts[d] = 0

\* C15 (as claimed): a RouteService.get_bus_positions call over some route has
\* awaited bus_provider.authenticate exactly once when it ends (one handshake
\* made by the call itself).
C15_ServiceAuthenticatesOnce ==
    \A c \in Callers :
        (pc[c] = "done" /\ call[c].op = "get_bus_positions" /\ call[c].routes # << >>)
            => handshakes[c] = 1

\* C16: with the steps of two requests interleaved on one client instance,
\* (1) no request is sent more than twice and no call makes more than one
\* handshake; (2) once the provider has accepted the handshake of either
\* request the session is Authenticated, whatever the other request's own
\* handshake did afterwards; (3) a request is in flight only under an
\* Authenticated session, and a call entered under one is not refused, whoever
\* authenticated it.
C16_SharedSessionConsistent ==
    /\ \A c \in Callers : attempts[c] <= 2 /\ handshakes[c] <= 1
    /\ (\E c \in Callers : last[c].op = "authenticate" /\ last[c].tag = "ok")
          => session_token = "authenticated"
    /\ \A c \in Callers :
          pc[c] \in {"details_wait", "positions_wait"} => session_token = "authenticated"
    /\ \A c \in Callers :
          (last[c].op \in ProviderOps /\ last[c].token_pre = "authenticated")
             => (last[c].attempts = 1 /\ last[c].out.exc # NotAuthenticated)

C16_Witness ==
    \E c, d \in Callers :
        /\ c # d
        /\ last[c].op = "authenticate" /\ last[c].tag = "ok"
        /\ last[d].op = "authenticate" /\ last[d].tag = "failed"
        /\ last[d].token_pre = "authenticated"
        /\ pc[d] = "details_wait"

\* C22 (as claimed): an adapter call whose attempt met a provider failure other
\* than the unauthorized signal (another non-200 status, a 401 without the
\* denial message, a body that is not valid JSON, a vehicle entry with a
\* malformed field, a transport error) failed with an error after exactly one
\* request, without a handshake and with the session as it was.
C22_OtherFailuresFailAfterOneAttempt ==
    \A c \in Callers :
        (last[c].op \in ProviderOps /\ last[c].tag = "failed")
            => /\ last[c].out.kind = "raise"
               /\ last[c].attempts = 1 /\ last[c].handshakes = 0
               /\ last[c].token_post = last[c].token_pre

\* C28: the session is None at construction; it changes only in the step in
\* which authenticate() handles an accepted handshake, and then to
\* "authenticated"; once "authenticated" it stays so through every step, a
\* refused handshake and a failed request included, and every
\* get_route_details or get_bus_positions entered from then on passes the
\* session check (its request is sent, it never ends with "not authenticated").
C28_Step ==
    /\ session_token = "authenticated" => session_token' = "authenticated"
    /\ session_token' # session_token =>
          /\ session_token' = "authenticated"
          /\ \E c \in Callers :
                /\ pc[c] = "auth_wait" /\ pc'[c] = "done"
                /\ last'[c].tag = "ok" /\ outcome'[c].value = TRUE
    /\ \A c \in Callers :
          (/\ session_token = "authenticated"
           /\ call'[c].op \in ProviderOps
           /\ (pc'[c] # pc[c] \/ call'[c] # call[c]))
             => /\ outcome'[c].exc # NotAuthenticated
                /\ (pc[c] = "idle" /\ call'[c].op = "get_route_details")
                      => (pc'[c] = "details_wait" /\ attempts'[c] = 1)
                /\ (pc[c] = "idle" /\ call'[c].op = "get_bus_positions"
                                  /\ call'[c].routes # << >>)
                      => (pc'[c] = "positions_wait" /\ attempts'[c] = 1)

C28_AuthenticatedIsAbsorbing == session_token = None /\ [][C28_Step]_vars

C28_Witness ==
    \E c \in Callers :
        /\ last[c].op = "authenticate" /\ last[c].tag = "failed"
        /\ last[c].token_pre = "authenticated" /\ last[c].out.value = FALSE
        /\ call[c].op = "get_bus_positions" /\ pc[c] = "positions_wait"
        /\ attempts[c] = 1 /\ session_token = "authenticated"

\* The vehicles of a response that come before its first malformed entry.
GoodPrefix(vs) ==
    { i \in 1..Len(vs) : \A j \in 1..i : vs[j].ta = GoodTime }

IsFound(out) == out.kind = "return" /\ ~out.value.absent

RECURSIVE FoundShapes(_)
FoundShapes(results) ==
    IF results = << >> THEN << >>
    ELSE (IF IsFound(Head(results)) THEN << Head(results).value >> ELSE << >>)
            \o FoundShapes(Tail(results))

\* C7: a get_route_shapes call that returns has asked the repository exactly
\* once per identifier, in input order, and returns exactly the shapes that were
\* found, in the order of their identifiers; an identifier without shape is
\* dropped and the lookups after it still happen.
C7_FoundShapesInInputOrder ==
    (s_pc = "done" /\ s_outcome.kind = "return")
        => /\ s_calls = s_routes
           /\ Len(s_results) = Len(s_routes)
           /\ s_outcome.value = FoundShapes(s_results)
           /\ \A k \in 1..Len(s_outcome.value) :
                 /\ ~s_outcome.value[k].absent
                 /\ \E i \in 1..Len(s_routes) : s_outcome.value[k].route = s_routes[i]

C7_Witness ==
    /\ s_pc = "done" /\ s_outcome.kind = "return"
    /\ Len(s_routes) = 2
    /\ s_results[1].value = Absent
    /\ IsFound(s_results[2])
    /\ Len(s_outcome.value) = 1
    /\ s_outcome.value[1].route = s_routes[2]

\* C8: get_route_shapes on the empty list returns the empty list without asking
\* the repository (no call, no SQL statement) or the bus provider (no operation
\* started, no request and no handshake sent).
C8_EmptyInputNoCalls ==
    (s_pc = "done" /\ s_routes = << >>)
        => /\ s_outcome.kind = "return"
           /\ s_outcome.value = << >>
           /\ s_calls = << >>
           /\ s_sql = << >>
           /\ nops = 0
           /\ \A c \in Callers : attempts[c] = 0 /\ handshakes[c] = 0 /\ pc[c] = "idle"

C8_Witness == s_pc = "done" /\ s_routes = << >> /\ s_outcome.kind = "return"

\* C9: when the repository raises for the k-th identifier, get_route_shapes has
\* ended with that same exception, returns no shapes, and the repository has
\* been called for the first k identifiers only.
C9_RepositoryExceptionAborts ==
    \A k \in 1..Len(s_results) :
        s_results[k].kind = "raise"
            => /\ s_pc \in {"done", "idle"}
               /\ s_outcome.kind = "raise"
               /\ s_outcome.exc = s_results[k].exc
               /\ k = Len(s_results)
               /\ Len(s_calls) = k
               /\ s_calls = SubSeq(s_routes, 1, k)

C9_Witness ==
    /\ s_pc = "done" /\ s_outcome.kind = "raise"
    /\ Len(s_routes) = 2 /\ Len(s_calls) = 1
    /\ s_results[1].kind = "raise"

\* C10: get_route_shape never returns a RouteShape without points: it returns
\* absent when the dataset has no shape id for (line, direction - 1), and then
\* only the trips statement ran, and when the selected shape id has no point.
C10_NoEmptyShape ==
    \A k \in 1..Len(s_results) :
        LET out == s_results[k]
            route == s_calls[k]
            ids == { t.shape_id : t \in { t \in gtfs.trips :
                        /\ t.route_id = route.bus_line
                        /\ t.direction_id = route.bus_direction - 1 } }
        IN out.kind = "return" =>
              /\ ~out.value.absent => Len(out.value.points) > 0
              /\ ids = {} => (out.value = Absent /\ Len(s_sql[k]) = 1
                              /\ s_sql[k][1].q = "trips")
              /\ (/\ Len(s_sql[k]) = 2
                  /\ { p \in gtfs.shapes : p.shape_id = s_sql[k][2].shape_id } = {})
                    => out.value = Absent

C10_Witness ==
    /\ Len(s_results) = 2
    /\ s_results[1].kind = "return" /\ s_results[1].value = Absent /\ Len(s_sql[1]) = 1
    /\ s_results[2].kind = "return" /\ s_results[2].value = Absent /\ Len(s_sql[2]) = 2

\* The dataset row a returned point was built from: same shape id, coordinate
\* and sequence.
IsRowOf(point, row, shape_id) ==
    /\ row.shape_id = shape_id
    /\ row.shape_pt_lat = point.coordinate.latitude
    /\ row.shape_pt_lon = point.coordinate.longitude
    /\ row.shape_pt_sequence = point.sequence

\* C23: every get_route_shape call asks the trips table for the identifier's
\* line with direction_id = bus_direction - 1 (0 for direction 1, 1 for
\* direction 2), and a returned RouteShape carries the caller's identifier,
\* direction 1 or 2, with a shape id the dataset holds for (line, direction - 1).
C23_DirectionTranslated ==
    \A k \in 1..Len(s_sql) :
        /\ s_sql[k][1].q = "trips"
        /\ s_sql[k][1].route_id = s_calls[k].bus_line
        /\ s_calls[k].bus_direction = 1 => s_sql[k][1].direction_id = 0
        /\ s_calls[k].bus_direction = 2 => s_sql[k][1].direction_id = 1
        /\ IsFound(s_results[k]) =>
              /\ s_results[k].value.route = s_calls[k]
              /\ s_results[k].value.route.bus_direction \in {1, 2}
              /\ \E t \in gtfs.trips :
                    /\ t.route_id = s_calls[k].bus_line
                    /\ t.direction_id + 1 = s_calls[k].bus_direction
                    /\ t.shape_id = s_results[k].value.shape_id

C23_Witness ==
    /\ Len(s_results) = 2
    /\ s_calls[1].bus_direction = 1 /\ IsFound(s_results[1])
    /\ s_sql[1][1].direction_id = 0 /\ s_results[1].value.route.bus_direction = 1
    /\ s_calls[2].bus_direction = 2 /\ IsFound(s_results[2])
    /\ s_sql[2][1].direction_id = 1 /\ s_results[2].value.route.bus_direction = 2

\* C24: every returned RouteShape has its points in ascending order of
\* sequence, one point for each row the dataset holds for the shape id and no
\* other point.
C24_PointsSortedAndComplete ==
    \A k \in 1..Len(s_results) :
        IsFound(s_results[k]) =>
            LET shape == s_results[k].value
                rows == { p \in gtfs.shapes : p.shape_id = shape.shape_id }
            IN /\ \A i, j \in 1..Len(shape.points) :
                     i < j => shape.points[i].sequence <= shape.points[j].sequence
               /\ Len(shape.points) = Cardinality(rows)
               /\ \A p \in rows :
                     \E i \in 1..Len(shape.points) : IsRowOf(shape.points[i], p, shape.shape_id)
               /\ \A i \in 1..Len(shape.points) :
                     \E p \in gtfs.shapes : IsRowOf(shape.points[i], p, shape.shape_id)

C24_Witness ==
    /\ Len(s_results) >= 1 /\ IsFound(s_results[1])
    /\ s_results[1].value.shape_id = "s1"
    /\ Len(s_results[1].value.points) = 2
    /\ s_results[1].value.points[1].sequence = 1
    /\ s_results[1].value.points[2].sequence = 2
    /\ \E p \in gtfs.shapes : p.shape_id = "s2"

\* C25: every point of a returned shape carries the dataset's distance for
\* its row, and None (never a number) where the dataset holds NULL; every
\* get_route_shape call runs the trips statement again, and the shapes
\* statement whenever a shape id was found, also for an identifier asked
\* before; no step changes the dataset.
C25_Pass ==
    \A k \in 1..Len(s_results) :
        /\ Len(s_sql[k]) >= 1 /\ s_sql[k][1].q = "trips"
        /\ IsFound(s_results[k]) =>
              /\ Len(s_sql[k]) = 2 /\ s_sql[k][2].q = "shapes"
              /\ s_sql[k][2].shape_id = s_results[k].value.shape_id
              /\ \A i \in 1..Len(s_results[k].value.points) :
                    LET point == s_results[k].value.points[i] IN
                    \E p \in gtfs.shapes :
                       /\ IsRowOf(point, p, s_results[k].value.shape_id)
                       /\ p.shape_dist_traveled = NULL => point.distance_traveled = None
                       /\ p.shape_dist_traveled # NULL
                             => point.distance_traveled = p.shape_dist_traveled

C25_Step == gtfs' = gtfs /\ C25_Pass'

C25_DistancePassedThroughNoCache == [][C25_Step]_vars

C25_Witness ==
    /\ Len(s_results) = 2 /\ s_calls[1] = s_calls[2]
    /\ IsFound(s_results[1]) /\ IsFound(s_results[2])
    /\ Len(s_sql[1]) = 2 /\ Len(s_sql[2]) = 2
    /\ \E i \in 1..Len(s_results[2].value.points) :
          s_results[2].value.points[i].distance_traveled = None
    /\ \E i \in 1..Len(s_results[2].value.points) :
          s_results[2].value.points[i].distance_traveled = "10.5"

\* ------------------------------------------------------ claims on the mappers
\* C26: applied to a search-result entry of direction 1 or 2, the mapper gives
\* a BusRoute with bus_line "{lt}-{tl}", the entry's route code, direction and
\* circular flag, and the primary terminal when the direction is 1, the
\* secondary one when it is 2 (an entry whose direction is neither is refused
\* with a validation error); applying it changes neither the entry nor
\* anything else.
C26_Step ==
    (m_pc = "idle" /\ m_pc' = "done")
        => /\ m_item' = m_item
           /\ UNCHANGED << pvars, svars, tvars >>
           /\ m_item.sl \in {1, 2} =>
                 /\ m_out'.kind = "return"
                 /\ m_out'.value.route.bus_line = m_item.lt \o "-" \o ToString(m_item.tl)
                 /\ m_out'.value.route_id = m_item.cl
                 /\ m_out'.value.route.bus_direction = m_item.sl
                 /\ m_out'.value.is_circular = m_item.lc
                 /\ m_item.sl = 1 => m_out'.value.terminal_name = m_item.tp
                 /\ m_item.sl = 2 => m_out'.value.terminal_name = m_item.ts
           /\ m_item.sl \notin {1, 2} =>
                 (m_out'.kind = "raise" /\ m_out'.exc = ValidationError)

C26_MapperSelectsTerminalByDirection == [][C26_Step]_vars

C26_Witness ==
    /\ m_pc = "done" /\ m_out.kind = "return"
    /\ m_item.lt = "8000" /\ m_item.tl = 10 /\ m_item.sl = 2
    /\ m_item.tp = "Term A" /\ m_item.ts = "Term B"
    /\ m_out.value.route.bus_line = "8000-10"
    /\ m_out.value.terminal_name = "Term B"

\* --------------------------------------------- claims on users and trips
RECURSIVE SumScores(_, _)
SumScores(rows, email) ==
    IF rows = << >> THEN 0
    ELSE (IF Head(rows).email = email THEN Head(rows).score ELSE 0)
            + SumScores(Tail(rows), email)

\* The rollback that ended the request failed: the error that leaves the
\* request is then the database's.
RollbackFailed == \E i \in 1..Len(t_session) : t_session[i] = "rollback failed"

RECURSIVE Methods(_)
Methods(calls) == IF calls = << >> THEN << >> ELSE << Head(calls).fn >> \o Methods(Tail(calls))

\* C17: a create_trip call whose lookup found no user, or found the user but was
\* given a negative distance, has raised ValueError (user not found, resp.
\* negative distance; only a rollback that fails puts the database's error in
\* its place), has made no repository call but the lookup (neither
\* save_trip nor add_user_score), and the trips and scores, in the session and
\* committed, are what they were when the request began.
C17_RejectedTripChangesNothing ==
    (/\ t_req.op = "create_trip" /\ Len(t_calls) >= 1
     /\ \/ t_calls[1].out = "none"
        \/ (t_calls[1].out = "found" /\ t_req.distance < 0))
        => /\ t_outcome.kind = "raise"
           /\ t_outcome.exc \in {UserNotFound, NegativeDistance, SqlError}
           /\ t_outcome.exc = SqlError => RollbackFailed
           /\ (t_calls[1].out = "none" /\ ~RollbackFailed) => t_outcome.exc = UserNotFound
           /\ (t_calls[1].out = "found" /\ ~RollbackFailed)
                 => t_outcome.exc = NegativeDistance
           /\ Methods(t_calls) = << "get_user_by_email" >>
           /\ tx_users = t_pre.users /\ tx_trips = t_pre.trips
           /\ db_users = t_pre.users /\ db_trips = t_pre.trips

C17_Witness ==
    /\ t_pc = "done" /\ t_req.op = "create_trip"
    /\ t_calls[1].out = "found" /\ t_req.distance < 0
    /\ t_outcome.kind = "raise" /\ t_outcome.exc = NegativeDistance
    /\ t_session = << "begin", "rollback", "close" >>
    /\ \E u \in db_users : u.email = t_req.email

C19_ScoreIsSumOfTrips ==
    /\ \A u \in db_users : u.score = SumScores(db_trips, u.email)
    /\ t_pc = "returned" => \A u \in tx_users : u.score = SumScores(tx_trips, u.email)

C19_Witness ==
    /\ t_pc = "done"
    /\ Len(db_trips) = 2 /\ db_trips[1].score = 77 /\ db_trips[2].score = 154
    /\ \E u \in db_users : u.email = db_trips[1].email /\ u.email = db_trips[2].email
                           /\ u.score = 231

\* C20: no two stored users share an email; a create_user for an email that had
\* a user when the request began has raised (ValueError "already exists" once
\* the lookup answered), has not called save_user, and has left the users,
\* name, password and score included, as they were.
C20_OneUserPerEmail ==
    /\ \A u, v \in db_users : u.email = v.email => u = v
    /\ \A u, v \in tx_users : u.email = v.email => u = v
    /\ (/\ t_req.op = "create_user" /\ Len(t_calls) >= 1
        /\ \E u \in t_pre.users : u.email = t_req.email)
          => /\ t_outcome.kind = "raise"
             /\ (t_calls[1].out = "found" /\ ~RollbackFailed) => t_outcome.exc = UserExists
             /\ Methods(t_calls) = << "get_user_by_email" >>
             /\ tx_users = t_pre.users /\ db_users = t_pre.users

C20_Witness ==
    /\ t_pc = "done" /\ t_req.op = "create_user"
    /\ t_outcome.kind = "raise" /\ t_outcome.exc = UserExists
    /\ \E u \in db_users : /\ u.email = t_req.email /\ u.name # t_req.name
                           /\ u.password # hash(t_req.password) /\ u.score > 0

\* C21: a get_user_ranking call makes one repository call, the read of the list
\* of all users ordered by score descending; it returns the 1-based position of
\* the user with the email in that list (after every user with a higher score,
\* before every user with a lower one), None when no user has the email, and
\* leaves users and trips, in the session and committed, as they were.
C21_RankingIsPositionInOrderedList ==
    (t_req.op = "get_user_ranking" /\ Len(t_calls) >= 1)
        => /\ Methods(t_calls) = << "get_all_users_ordered_by_score" >>
           /\ tx_users = t_pre.users /\ tx_trips = t_pre.trips
           /\ db_users = t_pre.users /\ db_trips = t_pre.trips
           /\ t_calls[1].out = "raise" => t_outcome.kind = "raise"
           /\ t_calls[1].out = "ok" =>
                LET l == t_calls[1].rows
                    n == Cardinality(DOMAIN l)
                IN /\ DOMAIN l = 1..n /\ n = Cardinality(t_pre.users)
                   /\ {l[i] : i \in 1..n} = t_pre.users
                   /\ \A i, j \in 1..n : i < j => l[i].score >= l[j].score
                   /\ t_outcome.kind = "raise" => t_pc = "done"
                   /\ t_outcome.kind = "return" =>
                        IF \E u \in t_pre.users : u.email = t_req.email
                        THEN /\ ~t_outcome.value.absent
                             /\ t_outcome.value.rank \in 1..n
                             /\ l[t_outcome.value.rank].email = t_req.email
                             /\ \A u \in t_pre.users :
                                   u.score > l[t_outcome.value.rank].score
                                      => \E i \in 1..(t_outcome.value.rank - 1) : l[i] = u
                        ELSE t_outcome.value.absent

C21_Witness ==
    /\ t_pc = "done" /\ t_req.op = "get_user_ranking" /\ t_outcome.kind = "return"
    /\ ~t_outcome.value.absent /\ t_outcome.value.rank = 2
    /\ \E u, v \in db_users : u.email = t_req.email /\ v.score > u.score
    /\ t_session = << "begin", "commit", "close" >>

\* C27: the repository calls of a create_trip are, in this order, the user
\* lookup, save_trip, add_user_score; add_user_score is called only after
\* save_trip has returned, and when save_trip raised, create_trip ended with
\* that exception and add_user_score was not called.
C27_LookupSaveThenAddScore ==
    t_req.op = "create_trip"
        => /\ \E n \in 0..3 :
                Methods(t_calls) = SubSeq(<< "get_user_by_email", "save_trip",
                                            "add_user_score" >>, 1, n)
           /\ \A k \in 1..Len(t_calls) :
                /\ t_calls[k].fn = "add_user_score"
                      => (t_calls[k - 1].fn = "save_trip" /\ t_calls[k - 1].out = "ok")
                /\ t_calls[k].fn = "save_trip"
                      => (t_calls[k - 1].fn = "get_user_by_email"
                          /\ t_calls[k - 1].out = "found")
                /\ (t_calls[k].fn = "save_trip" /\ t_calls[k].out = "raise")
                      => /\ Len(t_calls) = k
                         /\ t_outcome.kind = "raise" /\ t_outcome.exc = SqlError
                         /\ t_pc \in {"raised", "done"}
           /\ t_pc = "add_score" => (Len(t_calls) = 2 /\ t_calls[2].out = "ok")

C27_Witness ==
    /\ t_pc = "done" /\ t_req.op = "create_trip"
    /\ Methods(t_calls) = << "get_user_by_email", "save_trip" >>
    /\ t_calls[2].out = "raise"
    /\ t_outcome.kind = "raise" /\ t_outcome.exc = SqlError

Count(log, entry) == Cardinality({ i \in 1..Len(log) : log[i] = entry })

\* C30: a request's session is closed exactly once, as its last act, after
\* either a commit that succeeded or a rollback (called after an exception, a
\* failed commit included), never both and never neither; nothing is stored
\* before the commit, a request that raises stores nothing, and a create_trip
\* whose add_user_score failed after save_trip had flushed is rolled back, so
\* every stored trip belongs to a stored user whose score contains it.
C30_SessionCommitsOrRollsBack ==
    /\ t_pc \notin {"idle", "done"} =>
          /\ t_session = << "begin" >>
          /\ db_users = t_pre.users /\ db_trips = t_pre.trips
    /\ t_pc = "done" =>
          /\ t_session[1] = "begin" /\ t_session[Len(t_session)] = "close"
          /\ Count(t_session, "close") = 1
          /\ Count(t_session, "commit") + Count(t_session, "rollback")
                + Count(t_session, "rollback failed") = 1
          /\ Count(t_session, "commit failed") <= 1
          /\ Count(t_session, "commit") = 1 =>
                (t_outcome.kind = "return" /\ Count(t_session, "commit failed") = 0)
          /\ Count(t_session, "commit") = 0 =>
                (db_users = t_pre.users /\ db_trips = t_pre.trips)
          /\ t_outcome.kind = "raise" =>
                (db_users = t_pre.users /\ db_trips = t_pre.trips)
          /\ (\E k \in 1..Len(t_calls) : t_calls[k].out = "raise") =>
                /\ t_outcome.kind = "raise" /\ Count(t_session, "commit") = 0
                /\ Count(t_session, "commit failed") = 0
    /\ \A k \in 1..Len(db_trips) :
          \E u \in db_users : /\ u.email = db_trips[k].email
                               /\ u.score >= db_trips[k].score
    /\ \A u \in db_users : u.score = SumScores(db_trips, u.email)

C30_Witness ==
    /\ t_pc = "done" /\ t_req.op = "create_trip"
    /\ Methods(t_calls) = << "get_user_by_email", "save_trip", "add_user_score" >>
    /\ t_calls[2].out = "ok" /\ t_calls[2].score > 0
    /\ t_calls[3].out = "raise"
    /\ t_session = << "begin", "rollback", "close" >>
    /\ db_trips = t_pre.trips /\ db_trips # << >>

====
